---- MODULE Spec2Model ----
(***************************************************************************)
(* A model of the minijks decoder (src/src/lib.rs): Store::parse and the   *)
(* primitive readers it is built on.  The input buffer is a sequence of    *)
(* bytes (0..255), the BufReader is a logical cursor into it, and every    *)
(* `?`/read of Store::parse and process_cert is one step of the machine.   *)
(*                                                                         *)
(* Wide integers.  TLC's integers are 32-bit signed, so a u32 is kept as   *)
(* its two base-65536 digits <<hi, lo>> and a u64 as its four digits,      *)
(* most significant first; a u16 is a plain integer.  Every buffer of the  *)
(* model is shorter than 65536 bytes, so a length with hi > 0 is longer    *)
(* than anything that remains to be read.                                  *)
(***************************************************************************)
EXTENDS Integers, Sequences, FiniteSets, TLC

VARIABLES
    data,       \* the caller's buffer (data.as_ref())
    pos,        \* bytes of data consumed through the BufReader
    pc,         \* where Store::parse (or the reader harness) stands
    entries,    \* the entry count read from the header, a u32
    i,          \* entries completed by the `for _ in 0..entries` loop
    alias,      \* process_cert: local alias (String)
    timestamp,  \* process_cert: local timestamp (u64)
    cert_type,  \* process_cert: local cert_type (String)
    cert_length,\* process_cert: local cert_length (u32)
    cert_der,   \* process_cert: local cert_der (Vec<u8>)
    certs,      \* Store::parse: local certs
    keypairs,   \* Store::parse: local keypairs
    result,     \* what Store::parse produced: nothing yet, Ok, Err or a panic
    ret,        \* what the last primitive read returned
    log,        \* history: the fields read so far, <<name, start, end>>
    derCalls    \* history: the byte strings handed to X509Certificate::from_der

vars == <<data, pos, pc, entries, i, alias, timestamp, cert_type, cert_length,
          cert_der, certs, keypairs, result, ret, log, derCalls>>

-----------------------------------------------------------------------------
(* Bounds of the model *)

\* entries in a generated keystore body
MaxEntries == 2
\* length of the exhaustively enumerated raw buffers
MaxRaw == 7
\* largest n handed to read_bytes by the reader harness
MaxReadLen == 3

-----------------------------------------------------------------------------
(* Constants and conversions *)

MAGIC == <<254, 237, 254, 237>>

\* the string literal "X.509" as Unicode scalar values
X509 == <<88, 46, 53, 48, 57>>

\* u16::from_be_bytes
U16FromBe(b) == b[1] * 256 + b[2]

\* u32::from_be_bytes, as base-65536 digits <<hi, lo>>
U32FromBe(b) == <<b[1] * 256 + b[2], b[3] * 256 + b[4]>>

\* u64::from_le_bytes in place of from_be_bytes
U64FromLe(b) == <<b[8] * 256 + b[7], b[6] * 256 + b[5],
                  b[4] * 256 + b[3], b[2] * 256 + b[1]>>

\* u64::from_be_bytes, as base-65536 digits, most significant first
U64FromBe(b) == <<b[1] * 256 + b[2], b[3] * 256 + b[4],
                  b[5] * 256 + b[6], b[7] * 256 + b[8]>>

\* a small usize as a u32-shaped value (the `len` of an error message)
USize(n) == <<0, n>>

\* the version matched as a little-endian u32
VersionFromLe(value) ==
    IF value = <<2, 0, 0, 0>> THEN "V2" ELSE "Unsupported"

\* impl From<[u8; 4]> for Version
VersionFrom(value) ==
    IF U32FromBe(value) = <<0, 2>> THEN "V2" ELSE "Unsupported"

\* impl From<[u8; 4]> for EntryType; "panic" is the panic!("invalid entry type") arm
EntryTypeFrom(value) ==
    CASE U32FromBe(value) = <<0, 1>> -> "KeyPair"
      [] U32FromBe(value) = <<0, 2>> -> "Certs"
      [] OTHER -> "panic"

\* `i < entries` of the range 0..entries, with entries a u32
InRange(k, n) == n[1] > 0 \/ k < n[2]

IsCont(b) == b >= 128 /\ b <= 191

\* String::from_utf8: the scalar values of a well-formed UTF-8 byte string,
\* or <<-1>> (no scalar value) when the bytes are not valid UTF-8
RECURSIVE Utf8Decode(_)
Utf8Decode(b) ==
    IF b = <<>> THEN <<>>
    ELSE LET b1 == b[1]
             n  == Len(b)
             Rest(k) == Utf8Decode(SubSeq(b, k + 1, n))
             Cons(cp, k) == IF Rest(k) = <<-1>> THEN <<-1>> ELSE <<cp>> \o Rest(k)
         IN  CASE b1 < 128 -> Cons(b1, 1)
               [] b1 >= 194 /\ b1 <= 223 ->
                    IF n >= 2 /\ IsCont(b[2])
                    THEN Cons((b1 - 192) * 64 + (b[2] - 128), 2)
                    ELSE <<-1>>
               [] b1 >= 224 /\ b1 <= 239 ->
                    IF /\ n >= 3
                       /\ IsCont(b[2]) /\ IsCont(b[3])
                       /\ (b1 = 224 => b[2] >= 160)
                       /\ (b1 = 237 => b[2] <= 159)
                    THEN Cons((b1 - 224) * 4096 + (b[2] - 128) * 64 + (b[3] - 128), 3)
                    ELSE <<-1>>
               [] b1 >= 240 /\ b1 <= 244 ->
                    IF /\ n >= 4
                       /\ IsCont(b[2]) /\ IsCont(b[3]) /\ IsCont(b[4])
                       /\ (b1 = 240 => b[2] >= 144)
                       /\ (b1 = 244 => b[2] <= 143)
                    THEN Cons((b1 - 240) * 262144 + (b[2] - 128) * 4096
                              + (b[3] - 128) * 64 + (b[4] - 128), 4)
                    ELSE <<-1>>
               [] OTHER -> <<-1>>

\* X509Certificate::from_der, the external collaborator: a deterministic
\* function of the bytes alone.  It accepts a buffer that opens with the DER
\* SEQUENCE tag 0x30 and a one-byte length covering the rest.
FromDerOk(der) == Len(der) >= 2 /\ der[1] = 48 /\ der[2] = Len(der) - 2

FromDer(der) == [der |-> der]

-----------------------------------------------------------------------------
(* Results *)

NoStore == [certs |-> <<>>, key_pairs |-> <<>>]

Pending == [tag |-> "Pending", msg |-> "", args |-> <<>>, store |-> NoStore]

Err(msg, args) == [tag |-> "Err", msg |-> msg, args |-> args, store |-> NoStore]

Panic(msg) == [tag |-> "Panic", msg |-> msg, args |-> <<>>, store |-> NoStore]

\* Some(v) of Option<Vec<_>>
Some(v) == <<v>>

Ok(cs, ks) == [tag |-> "Ok", msg |-> "", args |-> <<>>,
               store |-> [certs |-> Some(cs), key_pairs |-> Some(ks)]]

\* UnexpectedEof falling into the generic arm, "error reading bytes: {e}"
ErrShortGenericArm(n) == Err("error reading bytes", <<n>>)

\* "buffer is too short, at least {n} [bytes] are required"
ErrShort(n) == Err("buffer is too short", <<n>>)

\* "invalid file format, expected header '{MAGIC}', but got '{magic}'"
ErrFormat(magic) == Err("invalid file format", <<MAGIC, magic>>)

\* "unsupported version, supported only version 2"
ErrVersion == Err("unsupported version, supported only version 2", <<>>)

\* "failed to read string: {e}"
ErrString == Err("failed to read string", <<"failed to fill whole buffer">>)

\* the Display of FromUtf8Error
ErrUtf8 == Err("invalid utf-8 sequence", <<>>)

\* "not supported certificate type: {cert_type}"
ErrCertType(t) == Err("not supported certificate type", <<t>>)

\* the collaborator's error, boxed by `?`
ErrDer == Err("certificate parse error", <<>>)

-----------------------------------------------------------------------------
(* Primitive readers: each yields [ok, val, pos, err] *)

\* Read::read_exact on the BufReader: n bytes from position p, or UnexpectedEof
ExactOk(d, p, n) == p + n <= Len(d)

ExactBytes(d, p, n) == SubSeq(d, p + 1, p + n)

\* a reader that takes one byte of look-ahead with every field
ExactEndLookahead(p, n) == p + n + 1

ExactEnd(p, n) == p + n

\* read_u16 / read_u32 / read_u64.  A read_exact that meets the end of the
\* buffer has consumed what was left of it; every caller returns at once.
ReadFixed(d, p, n) ==
    IF ExactOk(d, p, n)
    THEN [ok |-> TRUE, val |-> ExactBytes(d, p, n), pos |-> ExactEnd(p, n), err |-> Pending]
    ELSE [ok |-> FALSE, val |-> <<>>, pos |-> Len(d), err |-> ErrShort(USize(n))]

read_u16(d, p) == ReadFixed(d, p, 2)

read_u32(d, p) == ReadFixed(d, p, 4)

read_u64(d, p) == ReadFixed(d, p, 8)

\* read_bytes(data, len), len a u32 widened to usize
read_bytes(d, p, len) ==
    IF len[1] = 0 /\ ExactOk(d, p, len[2])
    THEN [ok |-> TRUE, val |-> ExactBytes(d, p, len[2]), pos |-> ExactEnd(p, len[2]),
          err |-> Pending]
    ELSE [ok |-> FALSE, val |-> <<>>, pos |-> Len(d), err |-> ErrShort(len)]

\* read_str: a u16 length, the payload, String::from_utf8
read_str(d, p) ==
    LET l == read_u16(d, p) IN
    IF ~l.ok THEN l
    ELSE LET length == U16FromBe(l.val) IN
         IF ~ExactOk(d, l.pos, length)
         THEN [ok |-> FALSE, val |-> <<>>, pos |-> Len(d), err |-> ErrString]
         ELSE LET buf == ExactBytes(d, l.pos, length)
                  s   == Utf8Decode(buf)
              IN  IF s = <<-1>>
                  THEN [ok |-> FALSE, val |-> <<>>, pos |-> ExactEnd(l.pos, length),
                        err |-> ErrUtf8]
                  ELSE [ok |-> TRUE, val |-> s, pos |-> ExactEnd(l.pos, length),
                        err |-> Pending]

\* read_timestamp
read_timestamp(d, p) ==
    LET t == read_u64(d, p) IN
    IF t.ok THEN [t EXCEPT !.val = U64FromBe(t.val)] ELSE t

-----------------------------------------------------------------------------
(* Input buffers: keystore images in the wire format, cut at every length,  *)
(* and every short raw buffer over a few bytes                              *)

\* a small count or length as four big-endian bytes
U32Be(n) == <<0, 0, n \div 256, n % 256>>

\* a u16-length-prefixed byte string
Str(b) == <<Len(b) \div 256, Len(b) % 256>> \o b

X509Bytes == <<88, 46, 53, 48, 57>>

\* one entry: tag, alias, timestamp, cert_type, der_len, der
Entry(tag, a, ts, t, derLen, der) == tag \o Str(a) \o ts \o Str(t) \o derLen \o der

CertEntry(a, ts, der) == Entry(U32Be(2), a, ts, X509Bytes, U32Be(Len(der)), der)

GoodEntries ==
    { CertEntry(<<97>>, <<0, 0, 0, 0, 0, 0, 0, 1>>, <<48, 0>>),
      CertEntry(<<195, 169>>, <<1, 2, 3, 4, 5, 6, 7, 8>>, <<48, 1, 5>>) }

BadEntries ==
    LET a  == <<97>>
        ts == <<0, 0, 1, 0, 0, 0, 2, 0>>
        d  == <<48, 0>>
    IN  { \* an entry-type tag of 3, and the little-endian encoding of 2
          Entry(U32Be(3), a, ts, X509Bytes, U32Be(2), d),
          Entry(<<2, 0, 0, 0>>, a, ts, X509Bytes, U32Be(2), d),
          \* a key-pair entry: alias, timestamp, key, chain of one link
          U32Be(1) \o Str(<<107>>) \o ts \o U32Be(1) \o <<7>> \o U32Be(1)
              \o Str(X509Bytes) \o U32Be(2) \o d,
          \* certificate types "PGP" and "x.509"
          Entry(U32Be(2), a, ts, <<80, 71, 80>>, U32Be(2), d),
          Entry(U32Be(2), a, ts, <<120, 46, 53, 48, 57>>, U32Be(2), d),
          \* an alias and a certificate type that are not UTF-8
          Entry(U32Be(2), <<254>>, ts, X509Bytes, U32Be(2), d),
          Entry(U32Be(2), a, ts, <<237, 160, 128>>, U32Be(2), d),
          \* DER the collaborator rejects
          Entry(U32Be(2), a, ts, X509Bytes, U32Be(2), <<5, 0>>),
          \* a DER length far beyond the buffer
          Entry(U32Be(2), a, ts, X509Bytes, <<128, 0, 0, 2>>, d),
          \* an alias length of 0 in front of a one-byte alias: every later
          \* field is read one byte early
          U32Be(2) \o <<0, 0>> \o a \o ts \o Str(X509Bytes) \o U32Be(2) \o d }

\* bodies: up to n entries, all but the last well-formed
RECURSIVE GoodRuns(_)
GoodRuns(n) ==
    IF n = 0 THEN {<<>>}
    ELSE LET S == GoodRuns(n - 1) IN S \cup {s \o e : s \in S, e \in GoodEntries}

Bodies ==
    GoodRuns(MaxEntries)
        \cup {s \o e : s \in GoodRuns(MaxEntries - 1), e \in BadEntries}

Prefixes(b) == {SubSeq(b, 1, k) : k \in 0..Len(b)}

Versions == {U32Be(2), U32Be(0), U32Be(1), U32Be(3), <<2, 0, 0, 0>>, <<0, 2, 0, 2>>}

Magics == {MAGIC, <<254, 237, 254, 238>>, <<237, 254, 237, 254>>, <<0, 0, 0, 2>>}

Images ==
    {MAGIC \o U32Be(2) \o U32Be(n) \o b : n \in 0..(MaxEntries + 1), b \in Bodies}
        \cup {m \o v \o U32Be(1) \o e : m \in Magics, v \in Versions, e \in GoodEntries}

RawBytes == {0, 2, 237, 254}

RawBuffers == UNION {[1..n -> RawBytes] : n \in 0..MaxRaw}

Inputs == RawBuffers \cup UNION {Prefixes(b) : b \in Images}

-----------------------------------------------------------------------------
(* Store::parse, one step per read *)

NoRet == [op |-> "", arg |-> <<0, 0>>, ok |-> FALSE, val |-> <<>>]

\* what a call of the reader `op` with length argument `arg` returned
Ret(op, arg, r) == [op |-> op, arg |-> arg, ok |-> r.ok, val |-> r.val]

Init ==
    /\ data \in Inputs
    /\ pos = 0
    /\ pc = "magic"
    /\ entries = <<0, 0>>
    /\ i = 0
    /\ alias = <<>>
    /\ timestamp = <<0, 0, 0, 0>>
    /\ cert_type = <<>>
    /\ cert_length = <<0, 0, 0, 0>>
    /\ cert_der = <<>>
    /\ certs = <<>>
    /\ keypairs = <<>>
    /\ result = Pending
    /\ ret = NoRet
    /\ log = <<>>
    /\ derCalls = <<>>

\* the cursor, the last return and the history after the read r of field `name`
Took(r, op, name) ==
    /\ pos' = r.pos
    /\ ret' = Ret(op, IF op = "read_bytes" THEN U32FromBe(cert_length) ELSE <<0, 0>>, r)
    /\ log' = IF r.ok THEN Append(log, <<name, pos, r.pos>>) ELSE log

\* `return Err(..)` / `?` / a panic: parse is over
Finish(res) == result' = res /\ pc' = "done"

Goto(l) == pc' = l /\ result' = result

\* a magic check that compares only the first three bytes
MagicOkPrefix(magic) == SubSeq(magic, 1, 3) = SubSeq(MAGIC, 1, 3)

MagicOk(magic) == magic = MAGIC

\* lib.rs 75-81
ReadMagic ==
    /\ pc = "magic"
    /\ LET r == read_u32(data, pos) IN
       /\ Took(r, "read_u32", "magic")
       /\ IF ~r.ok THEN Finish(r.err)
          ELSE IF ~MagicOk(r.val) THEN Finish(ErrFormat(r.val))
          ELSE Goto("version")
    /\ UNCHANGED <<data, entries, i, alias, timestamp, cert_type, cert_length,
                   cert_der, certs, keypairs, derCalls>>

\* lib.rs 82-87
ReadVersion ==
    /\ pc = "version"
    /\ LET r == read_u32(data, pos) IN
       /\ Took(r, "read_u32", "version")
       /\ IF ~r.ok THEN Finish(r.err)
          ELSE IF VersionFrom(r.val) = "Unsupported" THEN Finish(ErrVersion)
          ELSE Goto("entries")
    /\ UNCHANGED <<data, entries, i, alias, timestamp, cert_type, cert_length,
                   cert_der, certs, keypairs, derCalls>>

\* lib.rs 89
ReadEntries ==
    /\ pc = "entries"
    /\ LET r == read_u32(data, pos) IN
       /\ Took(r, "read_u32", "entries")
       /\ IF ~r.ok THEN Finish(r.err) /\ entries' = entries
          ELSE Goto("entry") /\ entries' = U32FromBe(r.val)
    /\ UNCHANGED <<data, i, alias, timestamp, cert_type, cert_length,
                   cert_der, certs, keypairs, derCalls>>

\* lib.rs 90-94: the next iteration of the loop reads the tag and dispatches
ReadEntryType ==
    /\ pc = "entry"
    /\ InRange(i, entries)
    /\ LET r == read_u32(data, pos) IN
       /\ Took(r, "read_u32", "entry_type")
       /\ IF ~r.ok THEN Finish(r.err)
          ELSE CASE EntryTypeFrom(r.val) = "panic" -> Finish(Panic("invalid entry type"))
                 [] EntryTypeFrom(r.val) = "KeyPair" ->
                        Finish(Panic("not implemented: key pairs"))
                 [] OTHER -> Goto("alias")
    /\ UNCHANGED <<data, entries, i, alias, timestamp, cert_type, cert_length,
                   cert_der, certs, keypairs, derCalls>>

\* lib.rs 100-103: the loop is over
ReturnStore ==
    /\ pc = "entry"
    /\ ~InRange(i, entries)
    /\ Finish(Ok(certs, keypairs))
    /\ UNCHANGED <<data, pos, entries, i, alias, timestamp, cert_type, cert_length,
                   cert_der, certs, keypairs, ret, log, derCalls>>

\* lib.rs 111
ProcessCertAlias ==
    /\ pc = "alias"
    /\ LET r == read_str(data, pos) IN
       /\ Took(r, "read_str", "alias")
       /\ IF ~r.ok THEN Finish(r.err) /\ alias' = alias
          ELSE Goto("timestamp") /\ alias' = r.val
    /\ UNCHANGED <<data, entries, i, timestamp, cert_type, cert_length,
                   cert_der, certs, keypairs, derCalls>>

\* lib.rs 112
ProcessCertTimestamp ==
    /\ pc = "timestamp"
    /\ LET r == read_timestamp(data, pos) IN
       /\ Took(r, "read_timestamp", "timestamp")
       /\ IF ~r.ok THEN Finish(r.err) /\ timestamp' = timestamp
          ELSE Goto("cert_type") /\ timestamp' = r.val
    /\ UNCHANGED <<data, entries, i, alias, cert_type, cert_length,
                   cert_der, certs, keypairs, derCalls>>

\* cert_type.eq_ignore_ascii_case("X.509")
IsX509IgnoreCase(t) == t \in {X509, <<120, 46, 53, 48, 57>>}

\* cert_type.eq("X.509")
IsX509(t) == t = X509

\* lib.rs 113-116
ProcessCertType ==
    /\ pc = "cert_type"
    /\ LET r == read_str(data, pos) IN
       /\ Took(r, "read_str", "cert_type")
       /\ IF ~r.ok THEN Finish(r.err) /\ cert_type' = cert_type
          ELSE /\ cert_type' = r.val
               /\ IF ~IsX509(r.val) THEN Finish(ErrCertType(r.val))
                  ELSE Goto("cert_length")
    /\ UNCHANGED <<data, entries, i, alias, timestamp, cert_length,
                   cert_der, certs, keypairs, derCalls>>

\* lib.rs 117
ProcessCertLength ==
    /\ pc = "cert_length"
    /\ LET r == read_u32(data, pos) IN
       /\ Took(r, "read_u32", "cert_length")
       /\ IF ~r.ok THEN Finish(r.err) /\ cert_length' = cert_length
          ELSE Goto("cert_der") /\ cert_length' = r.val
    /\ UNCHANGED <<data, entries, i, alias, timestamp, cert_type,
                   cert_der, certs, keypairs, derCalls>>

\* lib.rs 118
ProcessCertDer ==
    /\ pc = "cert_der"
    /\ LET r == read_bytes(data, pos, U32FromBe(cert_length)) IN
       /\ Took(r, "read_bytes", "cert_der")
       /\ IF ~r.ok THEN Finish(r.err) /\ cert_der' = cert_der
          ELSE Goto("from_der") /\ cert_der' = r.val
    /\ UNCHANGED <<data, entries, i, alias, timestamp, cert_type, cert_length,
                   certs, keypairs, derCalls>>

\* Cert { alias, timestamp, raw: cert_der, cert: parsed_cert }
NewCert(a, ts, der) == [alias |-> a, timestamp |-> ts, raw |-> der, cert |-> FromDer(der)]

\* lib.rs 119-125 and 96: the collaborator parses a clone of cert_der, the
\* entry is pushed and the loop goes round
ProcessCertParse ==
    /\ pc = "from_der"
    /\ derCalls' = Append(derCalls, cert_der)
    /\ IF ~FromDerOk(cert_der)
       THEN Finish(ErrDer) /\ UNCHANGED <<certs, i>>
       ELSE /\ certs' = Append(certs, NewCert(alias, timestamp, cert_der))
            /\ i' = i + 1
            /\ Goto("entry")
    /\ UNCHANGED <<data, pos, entries, alias, timestamp, cert_type, cert_length,
                   cert_der, keypairs, ret, log>>

Next ==
    \/ ReadMagic
    \/ ReadVersion
    \/ ReadEntries
    \/ ReadEntryType
    \/ ReturnStore
    \/ ProcessCertAlias
    \/ ProcessCertTimestamp
    \/ ProcessCertType
    \/ ProcessCertLength
    \/ ProcessCertDer
    \/ ProcessCertParse

Spec == Init /\ [][Next]_vars

-----------------------------------------------------------------------------
(* The primitive readers on their own, called in any order on one buffer,   *)
(* as the unit tests four_bytes_readed and version call them                *)

ReaderBuffers ==
    {<<254, 237, 254, 237, 0>>, <<0, 0, 0, 2>>,
     <<0, 2, 195, 169, 0, 1, 254, 9, 8, 7, 6, 5, 4, 3, 2, 1>>}
        \cup GoodEntries

ReaderInit ==
    /\ data \in UNION {Prefixes(b) : b \in ReaderBuffers}
    /\ pos = 0
    /\ pc = "reader"
    /\ entries = <<0, 0>>
    /\ i = 0
    /\ alias = <<>>
    /\ timestamp = <<0, 0, 0, 0>>
    /\ cert_type = <<>>
    /\ cert_length = <<0, 0, 0, 0>>
    /\ cert_der = <<>>
    /\ certs = <<>>
    /\ keypairs = <<>>
    /\ result = Pending
    /\ ret = NoRet
    /\ log = <<>>
    /\ derCalls = <<>>

\* one call: the cursor moves, the return value is kept, an error ends the run
Called(op, arg, r) ==
    /\ pos' = r.pos
    /\ ret' = Ret(op, arg, r)
    /\ pc' = IF r.ok THEN "reader" ELSE "failed"
    /\ result' = IF r.ok THEN result ELSE r.err
    /\ UNCHANGED <<data, entries, i, alias, timestamp, cert_type, cert_length,
                   cert_der, certs, keypairs, log, derCalls>>

CallReadU16 ==
    /\ pc = "reader"
    /\ Called("read_u16", <<0, 0>>, read_u16(data, pos))

CallReadU32 ==
    /\ pc = "reader"
    /\ Called("read_u32", <<0, 0>>, read_u32(data, pos))

CallReadU64 ==
    /\ pc = "reader"
    /\ Called("read_u64", <<0, 0>>, read_u64(data, pos))

CallReadBytes ==
    /\ pc = "reader"
    /\ \E n \in 0..MaxReadLen :
          Called("read_bytes", USize(n), read_bytes(data, pos, USize(n)))

CallReadStr ==
    /\ pc = "reader"
    /\ Called("read_str", <<0, 0>>, read_str(data, pos))

CallReadTimestamp ==
    /\ pc = "reader"
    /\ Called("read_timestamp", <<0, 0>>, read_timestamp(data, pos))

ReaderNext ==
    \/ CallReadU16
    \/ CallReadU32
    \/ CallReadU64
    \/ CallReadBytes
    \/ CallReadStr
    \/ CallReadTimestamp

ReaderSpec == ReaderInit /\ [][ReaderNext]_vars

-----------------------------------------------------------------------------
(* What the claims speak of *)

Done == pc = "done"

Last(s) == s[Len(s)]

\* the read that failed, if one did, began where the last field ended
LastEnd == IF log = <<>> THEN 0 ELSE Last(log)[3]

IsShortRead(r) == r.tag = "Err" /\ r.msg = "buffer is too short"

IsInvalidFormat(r) == r.tag = "Err" /\ r.msg = "invalid file format"

IsUnsupportedVersion(r) ==
    r.tag = "Err" /\ r.msg = "unsupported version, supported only version 2"

IsInvalidEncoding(r) == r.tag = "Err" /\ r.msg = "invalid utf-8 sequence"

IsUnsupportedCertType(r) == r.tag = "Err" /\ r.msg = "not supported certificate type"

HasMagic == Len(data) >= 4 /\ SubSeq(data, 1, 4) = <<254, 237, 254, 237>>

\* bytes 4..8 of the buffer, and whether they are 00 00 00 02
VersionBytes == SubSeq(data, 5, 8)

VersionIs2 == VersionBytes = <<0, 0, 0, 2>>

\* the tag of the entry the loop last started, taken from the buffer
TagRead == log # <<>> /\ Last(log)[1] = "entry_type"

TagBytes == SubSeq(data, Last(log)[2] + 1, Last(log)[2] + 4)

-----------------------------------------------------------------------------
(* C1.  With valid magic, version 2 and at least one entry declared, an     *)
(* entry-type tag that is not 1 or 2 makes parse return an InvalidEntryType *)
(* error value carrying the actual tag: parse returns an error, it does not *)
(* panic, and it returns no Store.                                          *)
C1_InvalidTagIsTypedError ==
    (Done /\ TagRead /\ TagBytes \notin {<<0, 0, 0, 1>>, <<0, 0, 0, 2>>})
        => /\ result.tag = "Err"
           /\ result.msg = "invalid entry type"
           /\ result.args = <<TagBytes>>

(* C2.  An entry whose type tag is 1 is decoded by the key-pair reader and  *)
(* appended to the key-pair sequence, and parsing goes on with the next     *)
(* entry instead of aborting: after a tag of 1 parse does not panic, and    *)
(* when it is over right after that tag, it is over with the error of the   *)
(* key-pair reader's first read.                                            *)
C2_KeyPairEntryIsDecoded ==
    (TagRead /\ TagBytes = <<0, 0, 0, 1>>)
        => /\ result.tag # "Panic"
           /\ Done => result.tag = "Err"

(* C3.  For every buffer of 0 to 7 bytes parse ends with an error that is   *)
(* InvalidFormat or ShortRead: it never gets past the version read, never   *)
(* returns a Store or another error, and never panics.                      *)
C3_ShortBufferFails ==
    Len(data) < 8
        => /\ pc \in {"magic", "version", "done"}
           /\ result.tag \in {"Pending", "Err"}
           /\ Done => (IsInvalidFormat(result) \/ IsShortRead(result))
           /\ (Done /\ ~HasMagic /\ Len(data) >= 4) => IsInvalidFormat(result)
           /\ (Done /\ (HasMagic \/ Len(data) < 4)) => IsShortRead(result)

\* a 7-byte buffer with the right magic whose version field is cut short
C3_Witness ==
    Len(data) = 7 /\ HasMagic /\ Done /\ IsShortRead(result) /\ Len(log) = 1

(* C4.  For every buffer of at least 4 bytes whose first 4 bytes are not    *)
(* FE ED FE ED, parse fails with InvalidFormat carrying the expected and    *)
(* the actual magic; nothing after the magic is read, whatever it is.       *)
C4_WrongMagicIsInvalidFormat ==
    (Len(data) >= 4 /\ ~HasMagic)
        => /\ pc \in {"magic", "done"}
           /\ \A k \in DOMAIN log : log[k][1] = "magic"
           /\ Done => /\ IsInvalidFormat(result)
                      /\ result.args = <<<<254, 237, 254, 237>>, SubSeq(data, 1, 4)>>
                      /\ result.store = NoStore
                      /\ pos = 4

\* a wrong magic, one bit away, in front of version 3 and an entry
C4_Witness ==
    /\ Len(data) >= 40
    /\ SubSeq(data, 1, 8) = <<254, 237, 254, 238, 0, 0, 0, 3>>
    /\ Done
    /\ IsInvalidFormat(result)

(* C5, as claimed.  With correct magic and at least 8 bytes, parse goes     *)
(* past the version check if and only if bytes 4..8 are the big-endian u32  *)
(* 2; every other value fails with UnsupportedVersion carrying the actual   *)
(* version value, before the entry count is read.                           *)
C5_VersionErrorCarriesActual ==
    (HasMagic /\ Len(data) >= 8)
        => /\ VersionIs2 => ~IsUnsupportedVersion(result)
           /\ ~VersionIs2 =>
                /\ pc \in {"magic", "version", "done"}
                /\ Done => /\ IsUnsupportedVersion(result)
                           /\ result.args = <<VersionBytes>>
                           /\ pos = 8

(* C5, amended.  With correct magic and at least 8 bytes, parse goes past   *)
(* the version check if and only if bytes 4..8 are the big-endian u32 2;    *)
(* every other value fails with the UnsupportedVersion error before the     *)
(* entry count is read, and that error names only the supported version 2:  *)
(* it carries no actual value.                                              *)
C5_VersionCheck ==
    (HasMagic /\ Len(data) >= 8)
        => /\ VersionIs2 =>
                /\ ~IsUnsupportedVersion(result)
                /\ pc \notin {"magic", "version", "entries"} =>
                     (Len(log) >= 3 \/ (Done /\ IsShortRead(result) /\ Len(data) < 12))
           /\ ~VersionIs2 =>
                /\ pc \in {"magic", "version", "done"}
                /\ \A k \in DOMAIN log : log[k][1] \in {"magic", "version"}
                /\ Done => /\ IsUnsupportedVersion(result)
                           /\ result.args = <<>>
                           /\ result.store = NoStore
                           /\ pos = 8

\* the little-endian encoding of 2 is refused, with an entry behind it
C5_Witness ==
    /\ HasMagic
    /\ Len(data) >= 40
    /\ VersionBytes = <<2, 0, 0, 0>>
    /\ Done
    /\ IsUnsupportedVersion(result)

\* what the read that failed needed, from the buffer: the width of a fixed
\* field, the declared length of a DER payload or of a string payload
StrCutInLength == Len(data) - LastEnd < 2

StrDeclared == data[LastEnd + 1] * 256 + data[LastEnd + 2]

StrCut == StrCutInLength \/ Len(data) - LastEnd - 2 < StrDeclared

Needed ==
    CASE ret.op = "read_u32" -> <<0, 4>>
      [] ret.op = "read_timestamp" -> <<0, 8>>
      [] ret.op = "read_bytes" ->
            <<data[LastEnd - 3] * 256 + data[LastEnd - 2],
              data[LastEnd - 1] * 256 + data[LastEnd]>>
      [] ret.op = "read_str" -> IF StrCutInLength THEN <<0, 2>> ELSE <<0, StrDeclared>>

\* the buffer ended inside the field being read
RanOut == ~ret.ok /\ (ret.op = "read_str" => StrCut)

(* C6.  When the buffer ends inside a multi-byte field (magic, version,     *)
(* count, tag, length prefix, timestamp, string payload, DER payload),      *)
(* parse fails with ShortRead carrying the number of bytes the field        *)
(* needed, a cut string payload included; InvalidEncoding comes only from a *)
(* payload that was read in full and is not UTF-8.                          *)
C6_TruncationIsShortRead ==
    /\ (Done /\ RanOut) => (IsShortRead(result) /\ result.args = <<Needed>>)
    /\ IsInvalidEncoding(result) =>
          /\ ~RanOut
          /\ Utf8Decode(SubSeq(data, LastEnd + 3, LastEnd + 2 + StrDeclared)) = <<-1>>

\* the wire format of a certificate entry that begins at offset o
AliasLen(o) == data[o + 5] * 256 + data[o + 6]

TsOff(o) == o + 6 + AliasLen(o)

TypeLen(o) == data[TsOff(o) + 9] * 256 + data[TsOff(o) + 10]

DerLenOff(o) == TsOff(o) + 10 + TypeLen(o)

DerLen(o) == data[DerLenOff(o) + 3] * 256 + data[DerLenOff(o) + 4]

DerOff(o) == DerLenOff(o) + 4

\* where the k-th entry begins when the entries before it are certificates
RECURSIVE EntryOff(_)
EntryOff(k) ==
    IF k = 1 THEN 12
    ELSE LET o == EntryOff(k - 1) IN DerOff(o) + DerLen(o)

\* the cert_type strings read so far that are not "X.509", by log index
OtherTypes ==
    {k \in DOMAIN log :
        /\ log[k][1] = "cert_type"
        /\ Utf8Decode(SubSeq(data, log[k][2] + 3, log[k][3])) # <<88, 46, 53, 48, 57>>}

(* C7.  A certificate entry whose cert_type string is not exactly "X.509"   *)
(* makes parse fail with UnsupportedCertificateType carrying the actual     *)
(* type, before the DER length is read and without the certificate parser   *)
(* being called for that entry: nothing after the string is consumed.       *)
C7_OtherCertTypeFailsEarly ==
    \A k \in OtherTypes :
        /\ k = Len(log)
        /\ Done
        /\ IsUnsupportedCertType(result)
        /\ result.args = <<Utf8Decode(SubSeq(data, log[k][2] + 3, log[k][3]))>>
        /\ pos = log[k][3]
        /\ Len(derCalls) = Len(certs)
        /\ Len(certs) = i

\* "PGP" in the second entry, with DER bytes behind it
C7_Witness ==
    /\ Done
    /\ IsUnsupportedCertType(result)
    /\ result.args = <<<<80, 71, 80>>>>
    /\ Len(certs) = 1
    /\ Len(data) > pos + 4

(* C8.  parse returns a Store only after exactly entry_count entries were   *)
(* decoded, one element per declared entry and each sequence in input       *)
(* order; when an entry fails for any reason, parse returns the error and   *)
(* nothing else.                                                            *)
C8_StoreIsAllOrError ==
    Done =>
        /\ result.tag \in {"Ok", "Err"}
        /\ result.tag = "Ok" =>
              /\ entries = <<0, Len(certs) + Len(keypairs)>>
              /\ result.store = [certs |-> <<certs>>, key_pairs |-> <<keypairs>>]
              /\ \A k \in 1..Len(certs) :
                    certs[k].raw = SubSeq(data, DerOff(EntryOff(k)) + 1,
                                          DerOff(EntryOff(k)) + DerLen(EntryOff(k)))
        /\ result.tag = "Err" => result.store = NoStore

(* C9.  Every certificate entry that decodes has as alias the UTF-8         *)
(* decoding of exactly its length-prefixed alias bytes, as timestamp the    *)
(* big-endian u64 of the next 8 bytes, and as raw DER the der_len bytes     *)
(* after the der_len field, unmodified; the certificate parser was handed   *)
(* those same bytes.                                                        *)
C9_CertFieldsAreTheWireBytes ==
    \A k \in 1..Len(certs) :
        LET o == EntryOff(k)
            t == TsOff(o)
            d == DerOff(o)
        IN  /\ certs[k].alias = Utf8Decode(SubSeq(data, o + 7, o + 6 + AliasLen(o)))
            /\ certs[k].timestamp = <<data[t + 1] * 256 + data[t + 2],
                                      data[t + 3] * 256 + data[t + 4],
                                      data[t + 5] * 256 + data[t + 6],
                                      data[t + 7] * 256 + data[t + 8]>>
            /\ data[d - 3] = 0 /\ data[d - 2] = 0
            /\ Len(certs[k].raw) = DerLen(o)
            /\ certs[k].raw = SubSeq(data, d + 1, d + DerLen(o))
            /\ derCalls[k] = certs[k].raw
            /\ certs[k].cert = [der |-> certs[k].raw]

\* two entries decoded and returned, the second with a two-byte alias
C9_Witness ==
    /\ result.tag = "Ok"
    /\ Len(certs) = 2
    /\ certs[2].alias = <<233>>
    /\ certs[2].timestamp = <<258, 772, 1286, 1800>>
    /\ certs[2].raw = <<48, 1, 5>>

\* the width of the field a primitive read was asked for
ReadWidth(r) ==
    CASE r.op = "read_u16" -> 2
      [] r.op = "read_u32" -> 4
      [] r.op = "read_u64" -> 8
      [] r.op = "read_bytes" -> r.arg[2]
      [] OTHER -> -1

(* C10.  A successful read_u16 / read_u32 / read_u64 / read_bytes(n)        *)
(* returns the next 2 / 4 / 8 / n bytes of the input in input order and     *)
(* moves the cursor by exactly that many bytes: the bytes behind the field  *)
(* are left unread for the next read, the buffer is untouched, and the      *)
(* cursor never moves backwards or past the end of the field.               *)
C10_ReadsConsumeExactly ==
    [][ /\ data' = data
        /\ pos' >= pos
        /\ (pc = "reader" /\ ret'.ok /\ ReadWidth(ret') >= 0) =>
              /\ pos' = pos + ReadWidth(ret')
              /\ pos' <= Len(data)
              /\ Len(ret'.val) = ReadWidth(ret')
              /\ \A k \in 1..ReadWidth(ret') : ret'.val[k] = data[pos + k]
      ]_vars

\* four_bytes_readed: after read_u32 on a 5-byte input exactly 1 byte remains
C10_Witness ==
    /\ pc = "reader"
    /\ data = <<254, 237, 254, 237, 0>>
    /\ ret.op = "read_u32" /\ ret.ok
    /\ ret.val = <<254, 237, 254, 237>>
    /\ Len(data) - pos = 1

====
